---- MODULE Spec2Model ----
(***************************************************************************)
(* Model of the query core of aro: the nom grammar of parser.rs, the      *)
(* clause normalisation of parse_filters, the record projector and the    *)
(* predicate compiler of filter.rs and the AND-scan over the projections.  *)
(*                                                                         *)
(* Strings are sequences of one-character strings; a parser result is a   *)
(* record [ok, rest, out] as nom's IResult (Err::Error is ok = FALSE).     *)
(***************************************************************************)
EXTENDS Integers, Sequences, FiniteSets, TLC

VARIABLES
    input,      \* the raw query string handed to parse_filters
    pc,         \* position of the program
    rest,       \* many_m_n: the input not consumed yet
    raw,        \* many_m_n: the clauses accumulated so far (res)
    branch,     \* per parsed clause, the alternative of parse_raw_filter that produced it
    unclosed,   \* per parsed clause, the unclosed delimiter its value text opened with ("" if none)
    spans,      \* per parsed clause, the input text parse_raw_filter consumed for it
    result,     \* what parse_filters returned
    idx,        \* scan: number of projections already visited
    matches,    \* scan: ids of the projections accepted so far, in visiting order
    clause,     \* predicate compiler: the clause handed to build_filter
    card,       \* predicate compiler: the projection the predicate is applied to
    source,     \* projector: the record SearchCard::from is applied to
    compiled,   \* predicate compiler: what build_filter returned
    verdict     \* predicate compiler: value of the predicate on card

vars == <<input, pc, rest, raw, branch, unclosed, spans, result, idx, matches, clause, card, source, compiled, verdict>>

----------------------------------------------------------------------------
(* Bounds of the model *)

\* longest enumerated query string
MaxLen == 4
\* largest magnitude of the numbers enumerated for projections and query values
MaxNum == 1

----------------------------------------------------------------------------
(* Characters and strings *)

UpperChars == <<"A","B","C","D","E","F","G","H","I","J","K","L","M","N","O","P","Q","R","S","T","U","V","W","X","Y","Z">>
LowerChars == <<"a","b","c","d","e","f","g","h","i","j","k","l","m","n","o","p","q","r","s","t","u","v","w","x","y","z">>
DigitChars == <<"0","1","2","3","4","5","6","7","8","9">>

Range(s) == {s[i] : i \in DOMAIN s}

\* the characters char::is_alphabetic accepts, among the modelled (ASCII) ones
Alphabetic == Range(UpperChars) \cup Range(LowerChars)

is_digit(c) == c \in Range(DigitChars)

\* the white space multispace0 skips: the model's only white space is the blank
Whitespace == {" "}

LowerChar(c) ==
    IF c \in Range(UpperChars)
    THEN LowerChars[CHOOSE i \in DOMAIN UpperChars : UpperChars[i] = c]
    ELSE c

\* str::to_lowercase
to_lowercase(s) == [i \in DOMAIN s |-> LowerChar(s[i])]

DigitVal(c) == (CHOOSE i \in DOMAIN DigitChars : DigitChars[i] = c) - 1

Drop(s, n) == SubSeq(s, n + 1, Len(s))
Take(s, n) == SubSeq(s, 1, n)

IsPrefix(p, s) == Len(p) <= Len(s) /\ Take(s, Len(p)) = p
IsSuffixOf(p, s) == Len(p) <= Len(s) /\ Drop(s, Len(s) - Len(p)) = p

\* the least element of a set of positions, 0 for the empty set
FirstHit(hits) == IF hits = {} THEN 0 ELSE CHOOSE i \in hits : \A j \in hits : i <= j

\* str::find: 1-based position of the first occurrence of pat in s, 0 if there is none
Find(s, pat) == FirstHit({i \in 1..(Len(s) - Len(pat) + 1) : SubSeq(s, i, i + Len(pat) - 1) = pat})

\* str::contains (the empty pattern is contained in every string)
contains(s, pat) == pat = <<>> \/ Find(s, pat) > 0

\* str::split on one character: "a|" gives <<"a", "">>, "" gives <<"">>
RECURSIVE split(_, _)
split_at_hit(s, c, i) == IF i = 0 THEN <<s>> ELSE <<Take(s, i - 1)>> \o split(Drop(s, i), c)
split(s, c) == split_at_hit(s, c, Find(s, <<c>>))

\* length of the longest prefix of s whose characters all satisfy the predicate set
RECURSIVE PrefixLen(_, _)
PrefixLen(s, P) ==
    IF s # <<>> /\ s[1] \in P THEN 1 + PrefixLen(Tail(s), P) ELSE 0

\* i32::MAX (the payload of Value::Numerical is an i32)
I32Max == 2147483647
I32Min == -I32Max - 1

\* checked accumulation of i32::from_str: digits are added to a positive number and
\* subtracted from a negative one; a step leaving the i32 range is an overflow error
RECURSIVE DecimalValue(_, _, _)
DecimalStep(s, acc, neg, d) ==
    IF neg
    THEN IF acc < -214748364 \/ (acc = -214748364 /\ d > 8)
         THEN [ok |-> FALSE]
         ELSE DecimalValue(s, acc * 10 - d, neg)
    ELSE IF acc > 214748364 \/ (acc = 214748364 /\ d > 7)
         THEN [ok |-> FALSE]
         ELSE DecimalValue(s, acc * 10 + d, neg)

DecimalValue(s, acc, neg) ==
    IF s = <<>> THEN [ok |-> TRUE, v |-> acc] ELSE DecimalStep(Tail(s), acc, neg, DigitVal(s[1]))

parse_digits(digits, neg) ==
    IF digits = <<>> \/ \E i \in DOMAIN digits : ~is_digit(digits[i])
    THEN [ok |-> FALSE]
    ELSE DecimalValue(digits, 0, neg)

\* a conversion that clamps to the ends of the i32 range instead of failing
Saturated(digits, neg, r) ==
    IF r.ok \/ digits = <<>> \/ \E i \in DOMAIN digits : ~is_digit(digits[i])
    THEN r
    ELSE [ok |-> TRUE, v |-> IF neg THEN -2147483647 - 1 ELSE 2147483647]
parse_digits_saturating(digits, neg) == Saturated(digits, neg, parse_digits(digits, neg))
parse_i32_saturating(s) ==
    IF s # <<>> /\ s[1] \in {"+", "-"}
    THEN parse_digits_saturating(Tail(s), s[1] = "-")
    ELSE parse_digits_saturating(s, FALSE)

\* str::parse::<i32>: optional sign, at least one digit, no overflow
parse_i32(s) ==
    IF s # <<>> /\ s[1] \in {"+", "-"} THEN parse_digits(Tail(s), s[1] = "-") ELSE parse_digits(s, FALSE)

----------------------------------------------------------------------------
(* nom combinators (complete versions), as parser.rs uses them. A parser result *)
(* is [ok, rest, out]; a conversion given to map_res returns [ok, v].            *)

Fail == [ok |-> FALSE]
Okay(r, o) == [ok |-> TRUE, rest |-> r, out |-> o]

\* sequencing: the next parser runs on what r left, an error ends the sequence
Then(r, K(_)) == IF r.ok THEN K(r) ELSE Fail

\* nom::branch::alt on two alternatives: the second is tried when the first fails
Or(r, other) == IF r.ok THEN r ELSE other

Lift(rst, x) == IF x.ok THEN Okay(rst, x.v) ELSE Fail

\* nom::combinator::map_res: an error of the conversion is an error of the parser
map_res(r, F(_)) == IF r.ok THEN Lift(r.rest, F(r.out)) ELSE Fail

\* nom::combinator::recognize: the input text the parser consumed
recognize(i, r) == IF r.ok THEN Okay(r.rest, Take(i, Len(i) - Len(r.rest))) ELSE Fail

\* nom::combinator::verify with the predicate !s.is_empty()
verify_non_empty(r) == IF r.ok /\ r.out # <<>> THEN r ELSE Fail

SplitAt(i, n) == Okay(Drop(i, n), Take(i, n))

\* nom::bytes::complete::take_while: the longest prefix of matching characters
take_while(P, i) == SplitAt(i, PrefixLen(i, P))

AtMost(i, m, n, k) == IF k < m THEN Fail ELSE SplitAt(i, IF k > n THEN n ELSE k)

\* nom::bytes::complete::take_while_m_n: between m and n matching characters, as many
\* as there are
take_while_m_n(m, n, P, i) == AtMost(i, m, n, PrefixLen(i, P))

\* nom::character::complete::multispace0: skips the leading white space, never fails
multispace0(i) == take_while(Whitespace, i)

Before(i, k) == IF k <= 1 THEN Fail ELSE SplitAt(i, k - 1)

\* nom::bytes::complete::take_until1(tag): the text before the first occurrence of
\* tag; an error when tag does not occur or occurs at the very start
take_until1(tag, i) == Before(i, Find(i, tag))

\* nom::combinator::rest: all the remaining input, possibly empty
nom_rest(i) == Okay(<<>>, i)

\* nom::character::complete::char(c)
char(c, i) == IF i # <<>> /\ i[1] = c THEN Okay(Tail(i), c) ELSE Fail

\* delimited that takes the rest of the input as content when the closing delimiter is missing
delimited_unterminated(open, close, i) ==
    Then(char(open, i), LAMBDA a :
        Or(Then(take_until1(<<close>>, a.rest), LAMBDA b :
                Then(char(close, b.rest), LAMBDA c : Okay(c.rest, b.out))),
           verify_non_empty(nom_rest(a.rest))))

\* nom::sequence::delimited(char(open), take_until1(close), char(close))
delimited(open, close, i) ==
    Then(char(open, i), LAMBDA a :
    Then(take_until1(<<close>>, a.rest), LAMBDA b :
    Then(char(close, b.rest), LAMBDA c : Okay(c.rest, b.out))))

----------------------------------------------------------------------------
(* Field, Operator and Value of parser.rs *)

Fields == {"Atk", "Def", "Legal", "Level", "Genesys", "LinkRating", "Year", "Price",
           "Set", "Type", "Attribute", "Name", "Text"}

\* the discriminant of the Field enum, the key parse_filters sorts the clauses by
FieldOrdinal(f) ==
    CASE f = "Atk" -> 1 [] f = "Def" -> 2 [] f = "Legal" -> 3 [] f = "Level" -> 4
      [] f = "Genesys" -> 5 [] f = "LinkRating" -> 6 [] f = "Year" -> 8 [] f = "Price" -> 9
      [] f = "Set" -> 10 [] f = "Type" -> 12 [] f = "Attribute" -> 14 [] f = "Name" -> 18
      [] f = "Text" -> 20

\* impl FromStr for Field: the lowercased word is looked up in the alias table
FieldNamed(w) ==
        CASE w \in {<<"a","t","k">>} -> [ok |-> TRUE, v |-> "Atk"]
        [] w \in {<<"d","e","f">>} -> [ok |-> TRUE, v |-> "Def"]
        [] w \in {<<"l","e","v","e","l">>, <<"l">>} -> [ok |-> TRUE, v |-> "Level"]
        [] w \in {<<"t","y","p","e">>, <<"t">>} -> [ok |-> TRUE, v |-> "Type"]
        [] w \in {<<"a","t","t","r","i","b","u","t","e">>, <<"a","t","t","r">>, <<"a">>} -> [ok |-> TRUE, v |-> "Attribute"]
        [] w \in {<<"o">>, <<"e","f","f">>, <<"t","e","x","t">>, <<"e","f","f","e","c","t">>, <<"e">>} -> [ok |-> TRUE, v |-> "Text"]
        [] w \in {<<"l","r">>, <<"l","i","n","k","r","a","t","i","n","g">>} -> [ok |-> TRUE, v |-> "LinkRating"]
        [] w \in {<<"g">>, <<"g","e","n">>, <<"g","e","n","e","s","y","s">>} -> [ok |-> TRUE, v |-> "Genesys"]
        [] w \in {<<"n","a","m","e">>} -> [ok |-> TRUE, v |-> "Name"]
        [] w \in {<<"s","e","t">>, <<"s">>} -> [ok |-> TRUE, v |-> "Set"]
        [] w \in {<<"y","e","a","r">>, <<"y">>} -> [ok |-> TRUE, v |-> "Year"]
        [] w \in {<<"l","e","g","a","l">>, <<"c","o","p","i","e","s">>} -> [ok |-> TRUE, v |-> "Legal"]
        [] w \in {<<"p","r","i","c","e">>, <<"p">>} -> [ok |-> TRUE, v |-> "Price"]
        [] OTHER -> [ok |-> FALSE]

Field_from_str(s) == FieldNamed(to_lowercase(s))

Operators == {"Equal", "NotEqual", "Less", "LessEqual", "Greater", "GreaterEqual"}

OPERATOR_CHARS == {"=", "<", ">", ":", "!"}

\* impl FromStr for Operator
Operator_from_str(s) ==
    CASE s \in {<<"=">>, <<"=","=">>, <<":">>} -> [ok |-> TRUE, v |-> "Equal"]
      [] s \in {<<">","=">>, <<"=",">">>} -> [ok |-> TRUE, v |-> "GreaterEqual"]
      [] s \in {<<"<","=">>, <<"=","<">>} -> [ok |-> TRUE, v |-> "LessEqual"]
      [] s = <<">">> -> [ok |-> TRUE, v |-> "Greater"]
      [] s = <<"<">> -> [ok |-> TRUE, v |-> "Less"]
      [] s = <<"!","=">> -> [ok |-> TRUE, v |-> "NotEqual"]
      [] OTHER -> [ok |-> FALSE]

\* Operator::filter_number
filter_number(op, a, b) ==
    CASE op = "Equal" -> a = b
      [] op = "Less" -> a < b
      [] op = "LessEqual" -> a <= b
      [] op = "Greater" -> a > b
      [] op = "GreaterEqual" -> a >= b
      [] op = "NotEqual" -> a # b

\* the variants of enum Value
VString(s) == [tag |-> "String", s |-> s]
VRegex(p) == [tag |-> "Regex", re |-> p]
VNumerical(n) == [tag |-> "Numerical", n |-> n]
VMultiple(vs) == [tag |-> "Multiple", vs |-> vs]
\* the names as one String, the first name, in place of the list of names
VStringOfFirst(ss) == [tag |-> "String", s |-> IF ss = <<>> THEN <<>> ELSE ss[1]]
VMultiplePartial(ss) == [tag |-> "MultiplePartial", ss |-> ss]
VNone == [tag |-> "None"]

\* struct RawCardFilter(Field, Operator, Value)
RawCardFilter(f, op, v) == [field |-> f, op |-> op, value |-> v]

----------------------------------------------------------------------------
(* The regex crate, restricted to the dialect the modelled queries use:          *)
(* literal characters, alternation with '|' and grouping with parentheses.        *)

\* characters with a meaning in a regex other than '|' and the parentheses: patterns
\* holding one are outside the modelled dialect
RegexMeta == {"[", "]", "{", "}", "?", "*", "+", ".", "^", "$", "\\"}

\* the parentheses of a pattern are balanced
RECURSIVE Balanced(_, _)
Balanced(p, depth) ==
    IF p = <<>> THEN depth = 0
    ELSE IF p[1] = "(" THEN Balanced(Tail(p), depth + 1)
    ELSE IF p[1] = ")" THEN depth > 0 /\ Balanced(Tail(p), depth - 1)
    ELSE Balanced(Tail(p), depth)

\* Regex::new: a pattern of the dialect compiles iff its parentheses are balanced
\* (empty alternatives and empty groups included)
Regex_new(p) ==
    IF (\E i \in DOMAIN p : p[i] \in RegexMeta) \/ ~Balanced(p, 0)
    THEN [ok |-> FALSE]
    ELSE [ok |-> TRUE, v |-> p]

\* the number of groups open before position i
Depth(p, i) ==
    Cardinality({j \in 1..(i - 1) : p[j] = "("}) - Cardinality({j \in 1..(i - 1) : p[j] = ")"})

\* the first '|' outside every group, 0 if there is none
TopBar(p) == FirstHit({i \in DOMAIN p : p[i] = "|" /\ Depth(p, i) = 0})

\* the ')' that closes the group opening at the head of p
GroupEnd(p) == FirstHit({j \in DOMAIN p : p[j] = ")" /\ Depth(p, j + 1) = 0})

Concat(A, B) == {a \o b : a \in A, b \in B}

\* the strings a compiled pattern denotes
RECURSIVE Lang(_), LangConcat(_)
LangAlt(p, bar) == IF bar = 0 THEN LangConcat(p) ELSE Lang(Take(p, bar - 1)) \cup Lang(Drop(p, bar))
Lang(p) == LangAlt(p, TopBar(p))
LangGroup(p, close) == Concat(Lang(SubSeq(p, 2, close - 1)), LangConcat(Drop(p, close)))
LangConcat(p) ==
    IF p = <<>> THEN {<<>>}
    ELSE IF p[1] = "(" THEN LangGroup(p, GroupEnd(p))
    ELSE Concat({<<p[1]>>}, LangConcat(Tail(p)))

\* Regex::is_match: an unanchored search, some string of the pattern occurs in the text
AnyOccurs(alternatives, text) == \E w \in alternatives : contains(text, w)
is_match(re, text) == AnyOccurs(Lang(re), text)

----------------------------------------------------------------------------
(* The grammar of parser.rs *)

\* sanitize that keeps the letter case
sanitize_keeping_case(query) ==
    IF query = <<>> THEN [ok |-> FALSE] ELSE [ok |-> TRUE, v |-> query]

\* fn sanitize
sanitize(query) ==
    IF query = <<>> THEN [ok |-> FALSE] ELSE [ok |-> TRUE, v |-> to_lowercase(query)]

NumericalOr(n, other) == IF n.ok THEN [ok |-> TRUE, v |-> VNumerical(n.v)] ELSE other
StringOf(q) == IF q.ok THEN [ok |-> TRUE, v |-> VString(q.v)] ELSE [ok |-> FALSE]
RegexOf(r) == IF r.ok THEN [ok |-> TRUE, v |-> VRegex(r.v)] ELSE [ok |-> FALSE]

\* fn parse_single_value
parse_single_value(i) == NumericalOr(parse_i32(i), StringOf(sanitize(i)))

\* collect::<Result<Vec<Value>, String>>() and the match on the slice: the first error,
\* else the only value or Value::Multiple
SingleOrMultiple(vals) ==
    IF \E k \in DOMAIN vals : ~vals[k].ok THEN [ok |-> FALSE]
    ELSE IF Len(vals) = 1 THEN [ok |-> TRUE, v |-> vals[1].v]
    ELSE [ok |-> TRUE, v |-> VMultiple([k \in DOMAIN vals |-> vals[k].v])]

ParseEach(parts) == [k \in DOMAIN parts |-> parse_single_value(parts[k])]

\* strip_prefix('/') and then strip_suffix('/') both succeed
is_regex_literal(i) == Len(i) >= 2 /\ i[1] = "/" /\ i[Len(i)] = "/"

\* parse_values that splits on '|' before it looks for the slashes
parse_values_split_first(i) == SingleOrMultiple(ParseEach(split(i, "|")))

\* fn parse_values
parse_values(i) ==
    IF is_regex_literal(i)
    THEN RegexOf(Regex_new(to_lowercase(SubSeq(i, 2, Len(i) - 1))))
    ELSE SingleOrMultiple(ParseEach(split(i, "|")))

\* fn field: the longest alphabetic prefix (possibly empty), parsed as a Field
field(i) == map_res(take_while(Alphabetic, i), Field_from_str)

\* an operator parser that retries with one character when two are no operator
operator_longest_valid(i) ==
    Or(map_res(take_while_m_n(1, 2, OPERATOR_CHARS, i), Operator_from_str),
       map_res(take_while_m_n(1, 1, OPERATOR_CHARS, i), Operator_from_str))

\* fn operator: one or two operator characters, as many as there are; the token taken
\* is then parsed, with no retry on a shorter token
operator(i) == map_res(take_while_m_n(1, 2, OPERATOR_CHARS, i), Operator_from_str)

\* the loop of nom's separated_list1(char('|'), take_until1(" |")) after an element:
\* a separator and another element, or the end of the list (the input before the separator)
RECURSIVE separated_tail(_)
separated_more(i, e) == IF e.ok THEN separated_tail(e.rest) ELSE i
separated_tail(i) ==
    separated_more(i, Then(char("|", i), LAMBDA s : take_until1(<<" ", "|">>, s.rest)))

\* nom::multi::separated_list1(char('|'), take_until1(" |")); only its extent is used
separated_list1(i) ==
    Then(take_until1(<<" ", "|">>, i), LAMBDA e : Okay(separated_tail(e.rest), <<>>))

\* fn values: the first alternative that matches decides the text, parse_values the
\* value; an error of parse_values fails the whole parser
values(i) ==
    map_res(Or(delimited("\"", "\"", i),
            Or(recognize(i, delimited("/", "/", i)),
            Or(recognize(i, separated_list1(i)),
            Or(take_until1(<<" ">>, i),
               nom_rest(i))))),
            parse_values)

\* fn word_non_empty
word_non_empty(i) == verify_non_empty(Or(take_until1(<<" ">>, i), nom_rest(i)))

NameFilter(q) ==
    IF q.ok THEN [ok |-> TRUE, v |-> RawCardFilter("Name", "Equal", VString(q.v))] ELSE [ok |-> FALSE]

\* fn fallback_filter
fallback_filter(query) == NameFilter(sanitize(query))

\* complete(tuple((field, operator, values))) mapped to a RawCardFilter
structured_filter(i) ==
    Then(field(i), LAMBDA f :
    Then(operator(f.rest), LAMBDA o :
    Then(values(o.rest), LAMBDA v : Okay(v.rest, RawCardFilter(f.out, o.out, v.out)))))

Via(r, via) == IF r.ok THEN Okay(r.rest, [filter |-> r.out, via |-> via]) ELSE Fail

\* fn parse_raw_filter; out.via names the alternative that produced the clause
parse_raw_filter(i) ==
    Then(multispace0(i), LAMBDA sp :
        Or(Via(structured_filter(sp.rest), "structured"),
           Via(map_res(word_non_empty(sp.rest), fallback_filter), "fallback")))

OpensUnclosed(v) ==
    IF v # <<>> /\ v[1] \in {"\"", "/"} /\ ~contains(Tail(v), <<v[1]>>) THEN v[1] ELSE ""

ValueText(i) ==
    Then(multispace0(i), LAMBDA sp : Then(field(sp.rest), LAMBDA f : operator(f.rest)))

UnclosedOf(o) == IF o.ok THEN OpensUnclosed(o.rest) ELSE ""

\* the opening delimiter of a clause's value text when the clause at the head of i is
\* `field operator "...` or `field operator /...` and no closing delimiter follows in
\* the input; "" otherwise
UnclosedDelimiter(i) == UnclosedOf(ValueText(i))

----------------------------------------------------------------------------
(* SearchCard and the predicate compiler of filter.rs *)

None == [some |-> FALSE]
Some(x) == [some |-> TRUE, v |-> x]

\* equality that lets a String equal every String it contains
value_eq_partial(a, b) ==
    /\ a.tag = b.tag
    /\ CASE a.tag = "String" -> contains(a.s, b.s)
         [] a.tag = "Numerical" -> a.n = b.n
         [] a.tag = "Multiple" -> a.vs = b.vs
         [] a.tag = "MultiplePartial" -> a.ss = b.ss
         [] a.tag = "Regex" -> a.re = b.re
         [] a.tag = "None" -> TRUE

\* impl PartialEq for Value
value_eq(a, b) ==
    /\ a.tag = b.tag
    /\ CASE a.tag = "String" -> a.s = b.s
         [] a.tag = "Numerical" -> a.n = b.n
         [] a.tag = "Multiple" -> a.vs = b.vs
         [] a.tag = "MultiplePartial" -> a.ss = b.ss
         [] a.tag = "Regex" -> a.re = b.re
         [] a.tag = "None" -> TRUE

\* the lookup with a numeric default in place of `?`
numerical_or_zero(o) == Some(VNumerical(IF o.some THEN o.v ELSE 0))

\* Option<i32> field read with `?`: the value, or None for the whole lookup
numerical_or_none(o) == IF o.some THEN Some(VNumerical(o.v)) ELSE None

\* fn get_field_value
get_field_value(c, f) ==
    CASE f = "Atk" -> numerical_or_none(c.atk)
      [] f = "Def" -> numerical_or_none(c.def)
      [] f = "Legal" -> Some(VNumerical(c.legal_copies))
      [] f = "Level" -> numerical_or_none(c.level)
      [] f = "LinkRating" -> numerical_or_none(c.link_rating)
      [] f = "Genesys" -> Some(VNumerical(c.genesys_points))
      [] f = "Year" -> numerical_or_none(c.original_year)
      [] f = "Set" -> Some(VMultiple([k \in DOMAIN c.sets |-> VString(c.sets[k])]))
      [] f = "Type" -> Some(VMultiple([k \in DOMAIN c.typeline |-> VString(c.typeline[k])]))
      [] f = "Attribute" -> Some(VString(IF c.attribute.some THEN c.attribute.v ELSE <<>>))
      [] f = "Name" -> Some(VMultiplePartial(c.names))
      [] f = "Text" -> Some(VString(c.text))
      [] f = "Price" -> numerical_or_none(c.price)

\* Option::unwrap_or_default on the looked-up value: Value::None when there is none
unwrap_or_default(o) == IF o.some THEN o.v ELSE VNone

\* the guard without its test of the operator
is_unknown_marker_any_op(op, query) == query = <<"?">>

\* the guard of the ? arm of filter_value
is_unknown_marker(op, query) == op \in {"Equal", "NotEqual"} /\ query = <<"?">>

\* fn filter_value
filter_value(op, field_value, query_value) ==
    LET ft == field_value.tag
        qt == query_value.tag
    IN  CASE ft = "None" -> FALSE
          [] ft = "Numerical" /\ qt = "Numerical" -> filter_number(op, field_value.n, query_value.n)
          [] ft = "Numerical" /\ qt = "String" /\ is_unknown_marker(op, query_value.s) ->
                filter_number(op, field_value.n, -1)
          [] ft = "String" /\ qt = "String" ->
                CASE op = "Equal" -> contains(field_value.s, query_value.s)
                  [] op = "NotEqual" -> ~contains(field_value.s, query_value.s)
                  [] OTHER -> FALSE
          [] ft = "String" /\ qt = "Regex" ->
                CASE op = "Equal" -> is_match(query_value.re, field_value.s)
                  [] op = "NotEqual" -> ~is_match(query_value.re, field_value.s)
                  [] OTHER -> FALSE
          [] ft = "Multiple" /\ qt = "String" ->
                CASE op = "Equal" -> \E k \in DOMAIN field_value.vs : value_eq(field_value.vs[k], query_value)
                  [] op = "NotEqual" -> ~\E k \in DOMAIN field_value.vs : value_eq(field_value.vs[k], query_value)
                  [] OTHER -> FALSE
          [] ft = "MultiplePartial" /\ qt = "String" ->
                CASE op = "Equal" -> \E k \in DOMAIN field_value.ss : contains(field_value.ss[k], query_value.s)
                  [] op = "NotEqual" -> ~\E k \in DOMAIN field_value.ss : contains(field_value.ss[k], query_value.s)
                  [] OTHER -> FALSE
          [] OTHER -> FALSE

\* build_filter that refuses an ordering operator with a string value
build_filter_strict(f) ==
    IF f.value.tag = "String" /\ f.op \notin {"Equal", "NotEqual"}
    THEN [ok |-> FALSE]
    ELSE IF f.value.tag = "Multiple"
    THEN [ok |-> TRUE, pred |-> [kind |-> "any", field |-> f.field, op |-> f.op, values |-> f.value.vs]]
    ELSE [ok |-> TRUE, pred |-> [kind |-> "single", field |-> f.field, op |-> f.op, value |-> f.value]]

\* fn build_filter: always Ok; the boxed closure is the data it captured
build_filter(f) ==
    IF f.value.tag = "Multiple"
    THEN [ok |-> TRUE, pred |-> [kind |-> "any", field |-> f.field, op |-> f.op, values |-> f.value.vs]]
    ELSE [ok |-> TRUE, pred |-> [kind |-> "single", field |-> f.field, op |-> f.op, value |-> f.value]]

\* the closure with Iterator::all in place of Iterator::any
call_filter_all(pred, c) ==
    IF pred.kind = "any"
    THEN \A k \in DOMAIN pred.values :
            filter_value(pred.op, unwrap_or_default(get_field_value(c, pred.field)), pred.values[k])
    ELSE filter_value(pred.op, unwrap_or_default(get_field_value(c, pred.field)), pred.value)

\* a call of the closure build_filter returned
call_filter(pred, c) ==
    IF pred.kind = "any"
    THEN \E k \in DOMAIN pred.values :
            filter_value(pred.op, unwrap_or_default(get_field_value(c, pred.field)), pred.values[k])
    ELSE filter_value(pred.op, unwrap_or_default(get_field_value(c, pred.field)), pred.value)

----------------------------------------------------------------------------
(* parse_filters: the clause list, its normalisation and the compiled predicates *)

\* the cap of many_m_n(1, 32, parse_raw_filter)
MaxFilters == 32
\* the minimum of many_m_n(1, 32, parse_raw_filter)
MinFilters == 1

\* many_m_n that never stops at its maximum
never_capped(count) == TRUE

\* many_m_n tries another clause only while fewer than its maximum are parsed
below_cap(count) == count < MaxFilters

\* an insertion that puts a clause before the clauses of the same field
RECURSIVE insert_sorted_unstable(_, _)
insert_sorted_unstable(sorted, x) ==
    IF sorted = <<>> THEN <<x>>
    ELSE IF FieldOrdinal(x.field) <= FieldOrdinal(sorted[Len(sorted)].field)
         THEN insert_sorted_unstable(Take(sorted, Len(sorted) - 1), x) \o <<sorted[Len(sorted)]>>
         ELSE Append(sorted, x)

\* slice::sort_by_key on the Field discriminant: a stable sort (insertion keeps the
\* input order of equal keys)
RECURSIVE insert_sorted(_, _)
insert_sorted(sorted, x) ==
    IF sorted = <<>> THEN <<x>>
    ELSE IF FieldOrdinal(x.field) < FieldOrdinal(sorted[Len(sorted)].field)
         THEN insert_sorted(Take(sorted, Len(sorted) - 1), x) \o <<sorted[Len(sorted)]>>
         ELSE Append(sorted, x)

RECURSIVE sort_by_key(_)
sort_by_key(v) ==
    IF v = <<>> THEN <<>> ELSE insert_sorted(sort_by_key(Take(v, Len(v) - 1)), v[Len(v)])

\* the closure given to coalesce: two Name-Equal-String clauses merge into one
is_name_search(f) == f.field = "Name" /\ f.op = "Equal" /\ f.value.tag = "String"

\* the merge with the two strings in the opposite order
merge_names_reversed(a, b) == RawCardFilter("Name", "Equal", VString(b.value.s \o <<" ">> \o a.value.s))

merge_names(a, b) == RawCardFilter("Name", "Equal", VString(a.value.s \o <<" ">> \o b.value.s))

\* Itertools::coalesce: the running element absorbs the next one while the closure merges
RECURSIVE coalesce_from(_, _)
coalesce_from(last, v) ==
    IF v = <<>> THEN <<last>>
    ELSE IF is_name_search(last) /\ is_name_search(v[1])
         THEN coalesce_from(merge_names(last, v[1]), Tail(v))
         ELSE <<last>> \o coalesce_from(v[1], Tail(v))

coalesce(v) == IF v = <<>> THEN <<>> ELSE coalesce_from(v[1], Tail(v))

Pending == [kind |-> "Pending"]
Err(why, text) == [kind |-> "Err", why |-> why, text |-> text]

BuildAll(w, built) ==
    IF \E k \in DOMAIN built : ~built[k].ok
    THEN Err("build", <<>>)
    ELSE [kind |-> "Ok", filters |-> w, predicates |-> [k \in DOMAIN built |-> built[k].pred]]

Normalize(w) == BuildAll(w, [k \in DOMAIN w |-> build_filter(w[k])])

\* parse_filters without the test that the input was consumed
parse_filters_ignoring_rest(in, many, rst, v) ==
    IF ~many THEN Err("parse", in) ELSE Normalize(coalesce(sort_by_key(v)))

\* fn parse_filters, after parse_raw_filters returned: `many` is whether many_m_n
\* succeeded, rest and v what it returned
parse_filters(in, many, rst, v) ==
    IF ~many THEN Err("parse", in)
    ELSE IF rst = <<>> THEN Normalize(coalesce(sort_by_key(v)))
    ELSE Err("leftover", rst)

\* many_m_n(1, 32, parse_raw_filter) as a function of its input: the clauses parsed
\* and the input left, from the clauses v parsed so far
RECURSIVE parse_raw_filters_from(_, _)
many_step(i, v, r) ==
    IF r.ok THEN parse_raw_filters_from(r.rest, Append(v, r.out.filter)) ELSE [rest |-> i, v |-> v]
parse_raw_filters_from(i, v) ==
    IF below_cap(Len(v)) THEN many_step(i, v, parse_raw_filter(i)) ELSE [rest |-> i, v |-> v]

parse_filters_after(in, m) == parse_filters(in, Len(m.v) >= MinFilters, m.rest, m.v)

\* parse_filters as a function of the query string
parse_filters_of(in) == parse_filters_after(in, parse_raw_filters_from(in, <<>>))

----------------------------------------------------------------------------
(* The corpus of projections and the queries of the model *)

SearchCard(id, typeline, names, text, atk, def, attribute, level, link_rating, sets, year, legal, genesys, price) ==
    [id |-> id, typeline |-> typeline, names |-> names, text |-> text, atk |-> atk, def |-> def,
     attribute |-> attribute, level |-> level, link_rating |-> link_rating, sets |-> sets,
     original_year |-> year, legal_copies |-> legal, genesys_points |-> genesys, price |-> price]

\* the projections of the test records of filter.rs (rules text shortened), the level-4
\* variant of level_filter_test, and a monster with ? ATK
Lacooda ==
    SearchCard(1, << <<"z","o","m","b","i","e">>, <<"e","f","f","e","c","t">> >>,
               << <<"d","e","s"," ","l","a","c","o","o","d","a">> >>,
               <<"d","r","a","w"," ","1"," ","c","a","r","d">>,
               Some(500), Some(600), Some(<<"e","a","r","t","h">>), Some(3), None,
               << <<"a","p","0","3">>, <<"l","4">> >>, Some(2003), 3, 0, Some(220))

LacoodaLevel4 == [Lacooda EXCEPT !.id = 2, !.level = Some(4), !.names = << <<"l">>, <<"x"," ","l">> >>,
                                 !.text = <<"x"," ","o">>]

Bls ==
    SearchCard(3, << <<"w","a","r","r","i","o","r">>, <<"l","i","n","k">>, <<"e","f","f","e","c","t">> >>,
               << <<"a","l","l","y"," ","o","f"," ","j","u","s","t","i","c","e">> >>,
               <<"l","i","n","k"," ","x">>,
               Some(3000), None, Some(<<"d","a","r","k">>), None, Some(3),
               << <<"m","p","1","9">> >>, Some(2019), 1, 100, Some(350))

Coffin ==
    SearchCard(4, << <<"n","o","r","m","a","l">>, <<"s","p","e","l","l">> >>,
               << <<"c","o","f","f","i","n">> >>,
               <<"d","i","s","c","a","r","d">>,
               None, None, None, None, None, <<>>, None, 3, 0, None)

UnknownAtk == [Lacooda EXCEPT !.id = 5, !.atk = Some(-1), !.def = Some(-1), !.level = Some(4),
                              !.names = << <<"x">> >>, !.text = <<"?">>]

Corpus == <<Lacooda, LacoodaLevel4, Bls, Coffin, UnknownAtk>>

\* all the strings over an alphabet up to a length
Strings(A, n) == UNION {[1..k -> A] : k \in 0..n}

\* numeric clauses, operators, lists and the ? marker
NumericAlphabet == {"l", "=", "<", "4", "|", " ", "?"}
\* text clauses, quotes and regex literals
TextAlphabet == {"o", ":", "\"", "/", "|", " ", "x"}

\* the queries of the tests of main.rs, parser.rs and filter.rs, and of the specification
TestQueries ==
    {<<"a","t","k","<","=",">","1">>,
     <<"l","=","=","=","1","0">>,
     <<"=","1","0","0">>,
     <<"t","=">>,
     <<"l","=","3">>,
     <<"l","=","3","|","4">>,
     <<"l","<","=","4">>,
     <<"l","e","v","e","l","=","4","|","5","|","6">>,
     <<"s","e","t",":","a","p","0","3">>,
     <<"s","e","t",":","a","p","0">>,
     <<"s","e","t","!","=","a","p","0","3">>,
     <<"d","e","f","=","?">>,
     <<"a","t","k","!","=","?">>,
     <<"t",":","l","i","n","k">>,
     <<"o",":","d","r","a","w">>,
     <<"a","!","=","d","a","r","k">>,
     <<"a","l","l","y"," ","o","f"," ","j","u","s","t","i","c","e">>}

\* n bare words separated by single blanks
RECURSIVE Words(_)
Words(n) == IF n = 1 THEN <<"x">> ELSE Words(n - 1) \o <<" ", "x">>

\* queries at and over the cap of many_m_n
LongQueries == {Words(n) : n \in (MaxFilters - 1)..(MaxFilters + 2)}

\* regex literals with '|', blanks, groups and capitals (after
\* regex_should_have_precedence_over_split), one of them with an unbalanced group
RegexQueries ==
    {<<"o",":","/","x","|","o","/">>,
     <<"o",":","/","(","X","|","o",")"," ","x","/">>,
     <<"n","a","m","e",":","/","(","a","|","b",")"," ","l","/">>,
     <<"l","=","4"," ","o",":","/","x"," ","|","o","/">>,
     <<"o","!","=","/","l","i","n","k","|","d","r","a","w","/">>,
     <<"o",":","/","(","x","|","o","/">>}

\* quoted values (after quoted_value_test) whose content holds '|', slashes, digits,
\* blanks or capitals
QuotedQueries ==
    {<<"o",":","\"","x"," ","o","\"">>,
     <<"o",":","\"","x","|","o","\"">>,
     <<"o",":","\"","/","x","/","\"">>,
     <<"l","=","\"","4","\"">>,
     <<"o",":","\"","D","r","a","w","\"">>,
     <<"l","=","4"," ","o",":","\"","x","\"">>}

\* several clauses on several fields, in an order the sort has to change
MixedQueries ==
    {<<"x"," ","l","=","4"," ","o">>,
     <<"x"," ","n","a","m","e","!","=","o"," ","l">>,
     <<"l"," ","x">>,
     <<"x"," ","l">>,
     <<"x"," ","l","=","4"," ","l","=","3">>,
     <<"o",":","x"," ","a","t","k","=","1"," ","l","=","4">>,
     <<"o",":","x"," ","l","<","4"," ","a","t","k",">","1"," ","l",">","3">>,
     <<"l","=","4">>,
     <<"d","e","s"," ","l","=","3">>}

\* operator characters in a row, and ordering comparisons of ATK and DEF
OperatorQueries ==
    {<<"a","t","k",">",">","5">>,
     <<"a","t","k","=","!","5">>,
     <<"t",":",":","x">>,
     <<"a","t","k",">","=","5">>,
     <<"a","t","k","<","1","0","0","0">>,
     <<"d","e","f","<","=","0">>}

\* capitals in field names, bare words, list values, quoted text and regex text
\* (after successful_parsing_test)
CaseQueries ==
    {<<"t",":","P","Y","r","o">>,
     <<"I","b">>,
     <<"A","T","K",">","=","1","0","0">>,
     <<"L","e","v","e","l","=","4","|","X">>,
     <<"o",":","\"","X"," ","O","\"">>,
     <<"N","A","M","E",":","/","(","A","|","b",")","/">>,
     <<"D","e","s"," ","L","=","3">>}

\* bare values followed by a token that starts with '|'
SpacedQueries ==
    {<<"l","=","4"," ","5"," ","|","6">>,
     <<"l","=","4"," ","|","6">>,
     <<"o",":","x"," ","o"," ","|">>,
     <<"l","=","4","|","5"," ","x">>,
     <<"o",":","x"," ","o">>}

\* integer literals at and beyond the ends of the i32 range
RangeQueries ==
    {<<"a","t","k","<","9","9","9","9","9","9","9","9","9","9","9">>,
     <<"a","t","k","!","=","9","9","9","9","9","9","9","9","9","9","9">>,
     <<"a","t","k",">","=","2","1","4","7","4","8","3","6","4","8">>,
     <<"a","t","k","<","=","2","1","4","7","4","8","3","6","4","7">>,
     <<"l",">","-","2","1","4","7","4","8","3","6","4","9">>,
     <<"l",">","-","2","1","4","7","4","8","3","6","4","8">>,
     <<"p","<","4","2","9","4","9","6","7","2","9","6","|","3">>}

Queries ==
    Strings(NumericAlphabet, MaxLen) \cup Strings(TextAlphabet, MaxLen) \cup TestQueries
    \cup LongQueries \cup RegexQueries \cup QuotedQueries \cup MixedQueries \cup OperatorQueries
    \cup CaseQueries \cup SpacedQueries \cup RangeQueries

----------------------------------------------------------------------------
(* The record projector: impl From<&Card> for SearchCard (names and price).     *)
(* An f32 is [m, k], the number m * 2^-k with 2^23 <= m <= 2^24, or m = 0.       *)

\* division rounded to the nearest integer, ties to the even one (IEEE 754 default)
RoundTie(q, r, d) ==
    IF 2 * r < d THEN q ELSE IF 2 * r > d THEN q + 1 ELSE IF q % 2 = 0 THEN q ELSE q + 1

round_half_even(n, d) == RoundTie(n \div d, n % d, d)

\* the binary scale of the f32 nearest to c/100: the k with 2^23 <= c * 2^k / 100 < 2^24
RECURSIVE F32Scale(_, _)
F32Scale(c, k) == IF c * 2^k < 50 * 2^24 THEN F32Scale(c, k + 1) ELSE k

F32Nearest(c, k) == [m |-> round_half_even(c * 2^k, 100), k |-> k]

\* the f32 nearest to the decimal number c/100
f32_from_hundredths(c) == IF c = 0 THEN [m |-> 0, k |-> 0] ELSE F32Nearest(c, F32Scale(c, 0))

\* the digits after the decimal point, padded to hundredths
Hundredths(frac) == IF Len(frac) = 0 THEN <<"0", "0">> ELSE IF Len(frac) = 1 THEN frac \o <<"0">> ELSE frac

F32OfDecimal(whole, frac) ==
    IF Len(whole) + Len(frac) = 0 \/ Len(frac) > 2 \/ \E i \in DOMAIN (whole \o frac) : ~is_digit((whole \o frac)[i])
    THEN [ok |-> FALSE]
    ELSE [ok |-> TRUE, v |-> f32_from_hundredths(DecimalValue(whole \o Hundredths(frac), 0, FALSE).v)]

F32SplitAt(s, dot) == IF dot = 0 THEN F32OfDecimal(s, <<>>) ELSE F32OfDecimal(Take(s, dot - 1), Drop(s, dot))

\* str::parse::<f32> on the price strings of the model: unsigned decimals with at most
\* two digits after the point, correctly rounded; every other string here is an error
parse_f32(s) == F32SplitAt(s, Find(s, <<".">>))

\* the f32 product p * 100.0: the exact product rounded to 24 bits
f32_mul_100(p) ==
    IF p.m = 0 THEN p
    ELSE IF p.m * 100 >= 2^30
         THEN [m |-> round_half_even(p.m * 100, 2^7), k |-> p.k - 7]
         ELSE [m |-> round_half_even(p.m * 100, 2^6), k |-> p.k - 6]

\* `as i32` on a non-negative f32 below 2^24: the fraction is dropped
f32_as_i32(p) == p.m \div 2^p.k

\* .map(|p| (p * 100.0) as i32)
cents_of(p) == f32_as_i32(f32_mul_100(p))

\* struct CardPrice
CardPrice(cardmarket_price, tcgplayer_price) ==
    [cardmarket_price |-> cardmarket_price, tcgplayer_price |-> tcgplayer_price]

\* flat_map over the two price strings of every entry, .flatten() over the parse results
RECURSIVE parsed_prices(_)
parsed_prices(card_prices) ==
    IF card_prices = <<>> THEN <<>>
    ELSE SelectSeq(<<parse_f32(card_prices[1].cardmarket_price), parse_f32(card_prices[1].tcgplayer_price)>>,
                   LAMBDA r : r.ok)
         \o parsed_prices(Tail(card_prices))

\* Iterator::min: None for no element
min(xs) == IF xs = <<>> THEN None ELSE Some(CHOOSE x \in Range(xs) : \A y \in Range(xs) : x <= y)

CentsOfEach(ps) == [k \in DOMAIN ps |-> cents_of(ps[k].v)]

\* the price field of SearchCard::from
projected_price(card_prices) == min(CentsOfEach(parsed_prices(card_prices)))

\* Itertools::dedup: consecutive equal elements collapse into one
RECURSIVE dedup(_)
dedup(xs) ==
    IF Len(xs) < 2 THEN xs
    ELSE IF xs[1] = xs[2] THEN dedup(Tail(xs)) ELSE <<xs[1]>> \o dedup(Tail(xs))

Flatten(options) == [k \in DOMAIN SelectSeq(options, LAMBDA o : o.some) |-> SelectSeq(options, LAMBDA o : o.some)[k].v]

Lowercased(xs) == [k \in DOMAIN xs |-> to_lowercase(xs[k])]

\* the names field of SearchCard::from
projected_names(name, treated_as, beta_name) ==
    dedup(Lowercased(Flatten(<<Some(name), treated_as, beta_name>>)))

\* the part of struct Card (with misc_info[0]) the modelled fields are projected from
Card(name, treated_as, beta_name, card_prices) ==
    [name |-> name, treated_as |-> treated_as, beta_name |-> beta_name, card_prices |-> card_prices]

NoCard == Card(<<>>, None, None, <<>>)

----------------------------------------------------------------------------
(* The query pipeline: parse_filters on a query, then the scan of the corpus *)

NoClause == RawCardFilter("Name", "Equal", VNone)

Init ==
    /\ input \in Queries
    /\ pc = "parse"
    /\ rest = input
    /\ raw = <<>>
    /\ branch = <<>>
    /\ unclosed = <<>>
    /\ spans = <<>>
    /\ result = Pending
    /\ idx = 0
    /\ matches = <<>>
    /\ clause = NoClause
    /\ card = Coffin
    /\ source = NoCard
    /\ compiled = Pending
    /\ verdict = <<>>

Parsed(r) ==
    /\ r.ok
    /\ raw' = Append(raw, r.out.filter)
    /\ branch' = Append(branch, r.out.via)
    /\ rest' = r.rest

\* one iteration of many_m_n that parses a clause
ParseRawFilter ==
    /\ pc = "parse"
    /\ below_cap(Len(raw))
    /\ Parsed(parse_raw_filter(rest))
    /\ unclosed' = Append(unclosed, UnclosedDelimiter(rest))
    /\ spans' = Append(spans, Take(rest, Len(rest) - Len(rest')))
    /\ UNCHANGED <<input, pc, result, idx, matches, clause, card, source, compiled, verdict>>

\* many_m_n ends (the cap is reached or parse_raw_filter fails; fewer than the minimum
\* is its error) and parse_filters builds its result
ParseFilters ==
    /\ pc = "parse"
    /\ ~below_cap(Len(raw)) \/ ~parse_raw_filter(rest).ok
    /\ result' = parse_filters(input, Len(raw) >= MinFilters, rest, raw)
    /\ pc' = IF result'.kind = "Ok" THEN "scan" ELSE "done"
    /\ UNCHANGED <<input, rest, raw, branch, unclosed, spans, idx, matches, clause, card, source, compiled, verdict>>

\* a test that keeps a projection as soon as one predicate holds
accepts_any(predicates, c) == \E k \in DOMAIN predicates : call_filter(predicates[k], c)

\* the scan visits the next projection: it is kept iff all predicates hold
\* (Iterator::all evaluates them left to right and stops at the first false)
accepts(predicates, c) == \A k \in DOMAIN predicates : call_filter(predicates[k], c)

ScanCard ==
    /\ pc = "scan"
    /\ idx < Len(Corpus)
    /\ idx' = idx + 1
    /\ matches' = IF accepts(result.predicates, Corpus[idx + 1])
                  THEN Append(matches, Corpus[idx + 1].id)
                  ELSE matches
    /\ UNCHANGED <<input, pc, rest, raw, branch, unclosed, spans, result, clause, card, source, compiled, verdict>>

ScanEnd ==
    /\ pc = "scan"
    /\ idx = Len(Corpus)
    /\ pc' = "done"
    /\ UNCHANGED <<input, rest, raw, branch, unclosed, spans, result, idx, matches, clause, card, source, compiled, verdict>>

Next == ParseRawFilter \/ ParseFilters \/ ScanCard \/ ScanEnd

Spec == Init /\ [][Next]_vars

----------------------------------------------------------------------------
(* The predicate compiler alone: build_filter on a clause, the predicate on a     *)
(* projection                                                                      *)

OptionalNumbers == {None} \cup {Some(n) : n \in -MaxNum..MaxNum}

NumberOr(o, d) == IF o.some THEN o.v ELSE d

ProbeTexts == {<<"a">>, <<"a","b">>}
ProbeLists == {<<>>, << <<"a","b">> >>, << <<"b">>, <<"a">> >>}

\* a projection whose optional numbers are all n, with attribute a and the list l for
\* its names, type tokens and set codes
ProbeCard(n, a, l) ==
    SearchCard(0, l, l, IF a.some THEN a.v ELSE <<"b">>, n, n, a, n, n, l, n,
               NumberOr(n, 3), NumberOr(n, 0), n)

ProbeCards ==
    {ProbeCard(n, a, l) : n \in OptionalNumbers, a \in {None} \cup {Some(t) : t \in ProbeTexts},
                          l \in ProbeLists}
    \cup Range(Corpus)

\* the single query values parse_single_value can return
ProbeSingles ==
    {VNumerical(n) : n \in -MaxNum..MaxNum}
    \cup {VString(t) : t \in ProbeTexts \cup {<<"?">>, <<"b">>}}

ProbeValues ==
    ProbeSingles
    \cup {VRegex(<<"a">>), VRegex(<<"a","|","x">>)}
    \cup {VMultiple(<<x, y>>) : x \in ProbeSingles, y \in ProbeSingles}

\* the clauses parse_raw_filter returns for the test queries
ParsedClauses == {parse_raw_filter(q).out.filter : q \in TestQueries}

ProbeClauses ==
    {RawCardFilter(f, op, v) : f \in Fields, op \in Operators, v \in ProbeValues} \cup ParsedClauses

FilterInit ==
    /\ clause \in ProbeClauses
    /\ card \in ProbeCards
    /\ source = NoCard
    /\ pc = "build"
    /\ compiled = Pending
    /\ verdict = <<>>
    /\ input = <<>>
    /\ rest = <<>>
    /\ raw = <<>>
    /\ branch = <<>>
    /\ unclosed = <<>>
    /\ spans = <<>>
    /\ result = Pending
    /\ idx = 0
    /\ matches = <<>>

\* build_filter compiles the clause
BuildFilter ==
    /\ pc = "build"
    /\ compiled' = build_filter(clause)
    /\ pc' = "call"
    /\ UNCHANGED <<input, rest, raw, branch, unclosed, spans, result, idx, matches, clause, card, source, verdict>>

\* the predicate is called on the projection
CallFilter ==
    /\ pc = "call"
    /\ compiled.ok
    /\ verdict' = <<call_filter(compiled.pred, card)>>
    /\ pc' = "called"
    /\ UNCHANGED <<input, rest, raw, branch, unclosed, spans, result, idx, matches, clause, card, source, compiled>>

FilterNext == BuildFilter \/ CallFilter

FilterSpec == FilterInit /\ [][FilterNext]_vars

----------------------------------------------------------------------------
(* The projector followed by the predicate compiler: SearchCard::from on a      *)
(* record, build_filter on a clause, the predicate on the projection             *)

\* longest enumerated price list of a record
MaxPrices == 2

\* price strings: two that do not parse, the cheaper prices of price_filter_test's
\* scenario in the specification (2.20, 3.50) and a price of 53 hundredths
PriceStrings == {<<>>, <<"x">>, <<"2",".","2","0">>, <<"3",".","5","0">>, <<"0",".","5","3">>}

PriceLists ==
    UNION {[1..n -> {CardPrice(a, b) : a \in PriceStrings, b \in PriceStrings}] : n \in 0..MaxPrices}

SourceCards ==
    {Card(<<"A">>, t, b, ps) : t \in {None, Some(<<"B">>)}, b \in {None, Some(<<"a">>)}, ps \in PriceLists}

ProjectClauses ==
    {RawCardFilter("Price", "Greater", VNumerical(300)),
     RawCardFilter("Price", "Less", VNumerical(350)),
     RawCardFilter("Price", "Equal", VNumerical(53)),
     RawCardFilter("Price", "Less", VNumerical(53)),
     RawCardFilter("Name", "Equal", VString(<<"a">>))}

ProjectInit ==
    /\ source \in SourceCards
    /\ clause \in ProjectClauses
    /\ card = Coffin
    /\ pc = "project"
    /\ compiled = Pending
    /\ verdict = <<>>
    /\ input = <<>>
    /\ rest = <<>>
    /\ raw = <<>>
    /\ branch = <<>>
    /\ unclosed = <<>>
    /\ spans = <<>>
    /\ result = Pending
    /\ idx = 0
    /\ matches = <<>>

\* SearchCard::from: the names and the price come from the record, the other fields
\* are those of the test monster
Project ==
    /\ pc = "project"
    /\ card' = [Lacooda EXCEPT !.id = 0,
                               !.names = projected_names(source.name, source.treated_as, source.beta_name),
                               !.price = projected_price(source.card_prices)]
    /\ pc' = "build"
    /\ UNCHANGED <<input, rest, raw, branch, unclosed, spans, result, idx, matches, clause, source, compiled, verdict>>

ProjectNext == Project \/ BuildFilter \/ CallFilter

ProjectSpec == ProjectInit /\ [][ProjectNext]_vars

----------------------------------------------------------------------------
(* Properties of the predicate compiler, checked under FilterSpec *)

NumericFields == {"Atk", "Def", "Legal", "Level", "Genesys", "LinkRating", "Year", "Price"}
OptionalNumericFields == {"Atk", "Def", "Level", "LinkRating", "Year", "Price"}

\* the number a projection holds for a numeric field, None when it holds none
NumberOf(c, f) ==
    CASE f = "Atk" -> c.atk [] f = "Def" -> c.def [] f = "Level" -> c.level
      [] f = "LinkRating" -> c.link_rating [] f = "Year" -> c.original_year
      [] f = "Price" -> c.price [] f = "Legal" -> Some(c.legal_copies)
      [] f = "Genesys" -> Some(c.genesys_points)

\* the projection has no value for the field: an optional number, or the attribute, is missing
NoApplicableValue(c, f) ==
    \/ f \in OptionalNumericFields /\ ~NumberOf(c, f).some
    \/ f = "Attribute" /\ ~c.attribute.some

\* C1 as claimed: a clause on a field without applicable value (the attribute of a
\* record that has none included) is false for every operator and every query value
\* other than the ? marker.
C1_InapplicableFieldNeverMatches ==
    (pc = "called" /\ NoApplicableValue(card, clause.field) /\ clause.value # VString(<<"?">>))
        => verdict = <<FALSE>>

\* C1 amended: a clause on ATK, DEF, level, link rating, year or price is false on a
\* projection that has no such number, for every operator (NotEqual included) and every
\* query value (the ? marker included).
C1_AbsentNumberNeverMatches ==
    (pc = "called" /\ clause.field \in OptionalNumericFields /\ ~NumberOf(card, clause.field).some)
        => verdict = <<FALSE>>

C1_Witness ==
    /\ pc = "called"
    /\ clause.field = "Level" /\ clause.op = "NotEqual" /\ clause.value = VNumerical(1)
    /\ ~card.level.some
    /\ verdict = <<FALSE>>

\* what a comparison with the literal ? must give on an optional number
SentinelExpected(op, o) ==
    CASE op = "Equal" -> o.some /\ o.v = -1
      [] op = "NotEqual" -> o.some /\ o.v # -1
      [] OTHER -> FALSE

\* C2: a numeric field compared with the literal ? is true under Equal iff the field is
\* present and -1, true under NotEqual iff it is present and not -1, and false under the
\* ordering operators and whenever the field is absent.
C2_QuestionMarkIsSentinel ==
    (pc = "called" /\ clause.field \in NumericFields /\ clause.value = VString(<<"?">>))
        => verdict = <<SentinelExpected(clause.op, NumberOf(card, clause.field))>>

C2_Witness ==
    /\ pc = "called"
    /\ clause = RawCardFilter("Def", "Equal", VString(<<"?">>))
    /\ card = UnknownAtk
    /\ verdict = <<TRUE>>

\* the value of the single-value clause (field, operator, v) on a projection
SingleClauseHolds(f, op, v, c) == call_filter(build_filter(RawCardFilter(f, op, v)).pred, c)

\* C3: a clause whose value is a list v1|...|vn is true on a projection iff one of the
\* single-value clauses (field, operator, vi) is true on it.
C3_AlternativesAreUnion ==
    (pc = "called" /\ clause.value.tag = "Multiple")
        => verdict = <<\E k \in DOMAIN clause.value.vs :
                            SingleClauseHolds(clause.field, clause.op, clause.value.vs[k], card)>>

\* l=3|4 on the level-4 projection: the first alternative fails, the second holds
C3_Witness ==
    /\ pc = "called"
    /\ clause = RawCardFilter("Level", "Equal", VMultiple(<<VNumerical(3), VNumerical(4)>>))
    /\ card = LacoodaLevel4
    /\ verdict = <<TRUE>>

\* C4: on the Set field with a string query, Equal is true iff some set code of the
\* projection is the query string itself, NotEqual iff none is, and exactly one of
\* set=x and set!=x is true.
C4_SetMatchesExactly ==
    (pc = "called" /\ clause.field = "Set" /\ clause.value.tag = "String" /\ clause.op \in {"Equal", "NotEqual"})
        => /\ verdict = <<(clause.op = "Equal") <=> (\E k \in DOMAIN card.sets : card.sets[k] = clause.value.s)>>
           /\ SingleClauseHolds("Set", "Equal", clause.value, card)
                # SingleClauseHolds("Set", "NotEqual", clause.value, card)

\* set:ap0 on a projection of set ap03: the query is a proper part of a set code
C4_Witness ==
    /\ pc = "called"
    /\ clause = RawCardFilter("Set", "Equal", VString(<<"a","p","0">>))
    /\ card = Lacooda
    /\ verdict = <<FALSE>>

\* a combination the predicate compiler gives no meaning: an ordering operator on a
\* text or list field, or a string other than ? compared with a number
UndefinedCombination(f) ==
    \/ f.field \in Fields \ NumericFields /\ f.op \notin {"Equal", "NotEqual"}
    \/ f.field \in NumericFields /\ f.value.tag = "String" /\ f.value.s # <<"?">>

----------------------------------------------------------------------------
(* Properties of parse_filters, checked under Spec *)

Returned == result.kind # "Pending"

MalformedOperatorQueries ==
    {<<"a","t","k","<","=",">","1">>, <<"l","=","=","=","1","0">>, <<"=","1","0","0">>}

\* C6: parse_filters rejects atk<=>1, l===10 and =100 with an error.
C6_MalformedOperatorRejected ==
    (Returned /\ input \in MalformedOperatorQueries) => result.kind = "Err"

HasOperatorChar(s) == \E i \in DOMAIN s : s[i] \in OPERATOR_CHARS

\* C7: when parse_filters succeeds, no clause produced by the fallback name rule holds
\* an operator character.
C7_FallbackNameHasNoOperatorChar ==
    result.kind = "Ok"
        => \A k \in DOMAIN raw : branch[k] = "fallback" => ~HasOperatorChar(raw[k].value.s)

\* the text after the field and the operator of the clause at the head of q
AfterOperator(q) == Then(field(q), LAMBDA f : operator(f.rest))

HasEmptyAlternative(v) == \E k \in DOMAIN split(v, "|") : split(v, "|")[k] = <<>>

\* q is one structured clause whose value, or one of its '|' alternatives, is empty
EmptyValueQuery(q) ==
    /\ AfterOperator(q).ok
    /\ \A i \in DOMAIN q : q[i] \notin {" ", "\"", "/"}
    /\ HasEmptyAlternative(AfterOperator(q).rest)

\* C8: a structured clause whose value resolves to the empty string (t=, l=4|) makes
\* parse_filters return an error.
C8_EmptyValueRejected ==
    (Returned /\ EmptyValueQuery(input)) => result.kind = "Err"

OpensUnclosedValue == \E k \in DOMAIN unclosed : unclosed[k] # ""

\* C9 as claimed: a clause whose value opens with a double quote or a '/' that is never
\* closed makes parse_filters return an error.
C9_UnclosedDelimiterRejected ==
    (Returned /\ OpensUnclosedValue) => result.kind = "Err"

\* the first string of a value: the String itself or the first alternative of a list
FirstString(v) ==
    IF v.tag = "String" THEN v.s
    ELSE IF v.tag = "Multiple" /\ v.vs[1].tag = "String" THEN v.vs[1].s
    ELSE <<>>

\* C9 amended: an opening double quote or '/' that is never closed is no parse error.
\* The clause is accepted with the delimiter kept as text: a structured clause whose
\* value is a bare String (or '|' list) that begins with the delimiter, or, when the
\* token does not resolve to a value, a fallback Name clause that contains it; and if
\* parse_filters fails on such a query it is because input was left over.
C9_UnclosedDelimiterKept ==
    /\ \A k \in DOMAIN raw : unclosed[k] # "" =>
            IF branch[k] = "structured"
            THEN IsPrefix(<<unclosed[k]>>, FirstString(raw[k].value))
            ELSE raw[k].field = "Name" /\ contains(raw[k].value.s, <<unclosed[k]>>)
    /\ (OpensUnclosedValue /\ result.kind = "Err") => result.why = "leftover"

\* o:"x is accepted as the Text clause with the String "x
C9_Witness ==
    /\ input = <<"o", ":", "\"", "x">>
    /\ result.kind = "Ok"
    /\ result.filters = <<RawCardFilter("Text", "Equal", VString(<<"\"", "x">>))>>

\* C10: parse_filters succeeds only if the clause parser consumed the whole input; when
\* text is left after the clause list it returns an error holding exactly that text,
\* and neither clauses nor predicates.
C10_WholeInputConsumed ==
    /\ IsSuffixOf(rest, input)
    /\ result.kind = "Ok" => rest = <<>>
    /\ (Returned /\ Len(raw) >= MinFilters /\ rest # <<>>) => result = Err("leftover", rest)

\* a query with a trailing blank: the blank is left over and reported
C10_Witness ==
    /\ input = <<"l", "=", "4", " ">>
    /\ raw = <<RawCardFilter("Level", "Equal", VNumerical(4))>>
    /\ result = Err("leftover", <<" ">>)

----------------------------------------------------------------------------
(* Properties of the projector, checked under ProjectSpec *)

Projected == pc \in {"build", "call", "called"} /\ source # NoCard

\* the hundredths a price string denotes, as a decimal number read exactly
ExactCentsOf(whole, frac) == DecimalValue(whole \o Hundredths(frac), 0, FALSE).v
ExactCentsAt(s, dot) == IF dot = 0 THEN ExactCentsOf(s, <<>>) ELSE ExactCentsOf(Take(s, dot - 1), Drop(s, dot))
ExactCents(s) == ExactCentsAt(s, Find(s, <<".">>))

\* the price strings of a record that parse as a number
ParsablePrices(card_prices) ==
    {s \in {card_prices[k].cardmarket_price : k \in DOMAIN card_prices}
            \cup {card_prices[k].tcgplayer_price : k \in DOMAIN card_prices} : parse_f32(s).ok}

\* the least of the exact hundredths of a set of price strings, None for no string
ExactMinimum(strings) ==
    IF strings = {} THEN None
    ELSE Some(CHOOSE m \in {ExactCents(s) : s \in strings} : \A s \in strings : m <= ExactCents(s))

\* C18: the projected price is the minimum, in integer cents, over the price strings of
\* the record that parse as a number, and absent iff none parses; the price clauses
\* compare against that minimum (p>300 is true iff the minimum exceeds 300 cents,
\* p<350 iff it is below 350).
C18_PriceIsMinimumInCents ==
    /\ Projected => card.price = ExactMinimum(ParsablePrices(source.card_prices))
    /\ (pc = "called" /\ clause.field = "Price" /\ ParsablePrices(source.card_prices) # {})
            => verdict = <<filter_number(clause.op, ExactMinimum(ParsablePrices(source.card_prices)).v,
                                         clause.value.n)>>

----------------------------------------------------------------------------
(* Properties of the clause list and of the scan, checked under Spec *)

\* the number of clauses the clause parser finds in a text when it is applied
\* repeatedly with no cap
RECURSIVE ClauseCount(_)
ClauseCountAfter(r) == IF r.ok THEN 1 + ClauseCount(r.rest) ELSE 0
ClauseCount(i) == ClauseCountAfter(parse_raw_filter(i))

\* C11: a query with more than 32 clauses (counted before coalescing) is rejected and
\* never truncated to its first 32 clauses; the empty query is rejected; whenever
\* parse_filters succeeds, between 1 and 32 clauses were parsed, they are all the
\* clauses of the input, and the returned list is not empty.
C11_ClauseCountWithinCap ==
    /\ (Returned /\ ClauseCount(input) > MaxFilters) => result.kind = "Err"
    /\ (Returned /\ input = <<>>) => result.kind = "Err"
    /\ result.kind = "Ok" =>
            /\ Len(raw) \in MinFilters..MaxFilters
            /\ Len(raw) = ClauseCount(input)
            /\ result.filters # <<>>

\* 33 words: the cap stops the clause parser after 32 and the 33rd is left over
C11_Witness ==
    /\ input = Words(MaxFilters + 1)
    /\ Len(raw) = MaxFilters
    /\ result = Err("leftover", <<" ", "x">>)

\* the length of the input consumed before the k-th clause
RECURSIVE SpanOffset(_, _)
SpanOffset(sp, k) == IF k = 1 THEN 0 ELSE SpanOffset(sp, k - 1) + Len(sp[k - 1])

\* the input from the k-th clause on
InputFrom(k) == Drop(input, SpanOffset(spans, k))

\* a value text that opens with the delimiter d and closes with the next d, with
\* content in between: [ok, body, after]
DelimitedText(v, d) ==
    IF v # <<>> /\ v[1] = d /\ Find(Tail(v), <<d>>) > 1
    THEN [ok |-> TRUE, body |-> Take(Tail(v), Find(Tail(v), <<d>>) - 1),
                       after |-> Drop(Tail(v), Find(Tail(v), <<d>>))]
    ELSE [ok |-> FALSE]

DelimitedAfter(o, d) ==
    IF o.ok THEN DelimitedText(o.rest, d) ELSE [ok |-> FALSE]

\* the text i begins (after blanks) with `field operator d...d`
DelimitedValueAt(i, d) == DelimitedAfter(ValueText(i), d)

\* the field and the operator the text i begins with
FieldAt(i) == Then(multispace0(i), LAMBDA sp : field(sp.rest)).out
OperatorAt(i) == ValueText(i).out

\* the k-th clause is written with a /.../ literal that holds a '|' and is a pattern
\* of the regex dialect
IsRegexLiteralWithBar(k) ==
    /\ DelimitedValueAt(InputFrom(k), "/").ok
    /\ contains(DelimitedValueAt(InputFrom(k), "/").body, <<"|">>)
    /\ Regex_new(to_lowercase(DelimitedValueAt(InputFrom(k), "/").body)).ok

\* C12: a value written as a /.../ regex literal containing '|' (and possibly blanks)
\* is parsed into exactly one clause, whose value is the Regex with the lowercased text
\* between the slashes as pattern, never a Multiple; the clause ends at the closing
\* slash and is returned by parse_filters as it was parsed.
C12_RegexLiteralNotSplit ==
    \A k \in DOMAIN raw : IsRegexLiteralWithBar(k) =>
        /\ raw[k] = RawCardFilter(FieldAt(InputFrom(k)), OperatorAt(InputFrom(k)),
                                  VRegex(to_lowercase(DelimitedValueAt(InputFrom(k), "/").body)))
        /\ InputFrom(k) = spans[k] \o DelimitedValueAt(InputFrom(k), "/").after
        /\ result.kind = "Ok" => \E j \in DOMAIN result.filters : result.filters[j] = raw[k]

\* o:/(X|o) x/ is one Text clause with the pattern (x|o) x
C12_Witness ==
    /\ input = <<"o",":","/","(","X","|","o",")"," ","x","/">>
    /\ result.kind = "Ok"
    /\ result.filters = <<RawCardFilter("Text", "Equal", VRegex(<<"(","x","|","o",")"," ","x">>))>>

\* C13: the content of a double-quoted value is atomic: whatever it holds ('|', a
\* leading and a trailing '/', digits only), the value of the clause is the single
\* String of the lowercased content, never a Multiple, a Regex or a Numerical.
C13_QuotedContentAtomic ==
    \A k \in DOMAIN raw : DelimitedValueAt(InputFrom(k), "\"").ok =>
        raw[k] = RawCardFilter(FieldAt(InputFrom(k)), OperatorAt(InputFrom(k)),
                               VString(to_lowercase(DelimitedValueAt(InputFrom(k), "\"").body)))

\* the fields from the cheapest to the most expensive
FieldsByRank ==
    <<"Atk", "Def", "Legal", "Level", "Genesys", "LinkRating", "Year", "Price", "Set", "Type",
      "Attribute", "Name", "Text">>

OnField(v, f) == SelectSeq(v, LAMBDA c : c.field = f)

\* the clauses of v grouped by field, cheapest field first, each group in the order of v
RECURSIVE GroupedByRank(_, _)
GroupedByRank(v, n) == IF n = 0 THEN <<>> ELSE GroupedByRank(v, n - 1) \o OnField(v, FieldsByRank[n])

StableByRank(v) == GroupedByRank(v, Len(FieldsByRank))

\* every maximal run of (Name, Equal, String) clauses replaced by one such clause, its
\* string the strings of the run joined by single blanks, in the order of the run
RECURSIVE JoinRuns(_)
JoinHead(c, joined) ==
    IF is_name_search(c) /\ is_name_search(joined[1])
    THEN <<RawCardFilter("Name", "Equal", VString(c.value.s \o <<" ">> \o joined[1].value.s))>> \o Tail(joined)
    ELSE <<c>> \o joined
JoinRuns(v) == IF Len(v) <= 1 THEN v ELSE JoinHead(v[1], JoinRuns(Tail(v)))

NoAdjacentNameSearches(v) ==
    \A j \in 1..(Len(v) - 1) : ~(is_name_search(v[j]) /\ is_name_search(v[j + 1]))

\* C14: after parse_filters succeeds the returned list has no two adjacent
\* (Name, Equal, String) clauses: every maximal run of them in the sorted list is one
\* clause whose string is the strings of the run joined by single blanks in input order.
C14_NameRunsCoalesced ==
    result.kind = "Ok" =>
        /\ NoAdjacentNameSearches(result.filters)
        /\ result.filters = JoinRuns(StableByRank(raw))

\* the bare words ally, of, justice are one clause
C14_Witness ==
    /\ input = <<"a","l","l","y"," ","o","f"," ","j","u","s","t","i","c","e">>
    /\ Len(raw) = 3
    /\ result.kind = "Ok"
    /\ result.filters = <<RawCardFilter("Name", "Equal",
                            VString(<<"a","l","l","y"," ","o","f"," ","j","u","s","t","i","c","e">>))>>

\* the AND of the predicates of the clauses as they were parsed, before coalescing
UncoalescedAccepts(c) == \A k \in DOMAIN raw : call_filter(build_filter(raw[k]).pred, c)

\* C15: coalescing preserves meaning: the returned query accepts a projection iff the
\* AND of the clauses before coalescing (the single words) accepts it.
C15_CoalescingPreservesMeaning ==
    result.kind = "Ok" =>
        \A i \in DOMAIN Corpus : accepts(result.predicates, Corpus[i]) <=> UncoalescedAccepts(Corpus[i])

Rank(c) == FieldOrdinal(c.field)

NonDecreasingRank(v) == \A j \in 1..(Len(v) - 1) : Rank(v[j]) <= Rank(v[j + 1])

\* w holds the clauses of v, each as often, and two clauses of one field in the order of v
StablePermutation(v, w) == Len(w) = Len(v) /\ \A f \in Fields : OnField(w, f) = OnField(v, f)

Reverse(v) == [k \in DOMAIN v |-> v[Len(v) + 1 - k]]

\* every predicate of the query, taken from the last to the first, is true on c
AllHoldReversed(c) == \A k \in DOMAIN result.predicates : call_filter(Reverse(result.predicates)[k], c)

IdsOf(cards) == [k \in DOMAIN cards |-> cards[k].id]

\* C17: the result of the scan is exactly the subsequence of the corpus, in corpus
\* order and without duplicates or omissions, of the records on whose projection every
\* predicate of the query is true, whatever the order the predicates are evaluated in.
C17_ScanIsFilteredSubsequence ==
    /\ result.kind = "Ok" =>
            /\ matches = IdsOf(SelectSeq(Take(Corpus, idx), AllHoldReversed))
            /\ \A i, j \in DOMAIN matches : i # j => matches[i] # matches[j]
    /\ (result.kind = "Ok" /\ pc = "done") => idx = Len(Corpus)
    /\ result.kind # "Ok" => matches = <<>>

\* l=4 finds the second and the fifth projection, in that order
C17_Witness ==
    /\ input = <<"l", "=", "4">>
    /\ pc = "done"
    /\ matches = <<LacoodaLevel4.id, UnknownAtk.id>>

\* the text after the field name the text i begins with
AfterField(i) == Then(multispace0(i), LAMBDA sp : field(sp.rest))

\* the first operator characters of a text, two at most
OperatorRun(r) == Take(r, IF PrefixLen(r, OPERATOR_CHARS) > 2 THEN 2 ELSE PrefixLen(r, OPERATOR_CHARS))

\* after a recognised field name come two operator characters that are no operator
\* together, while the first one alone is an operator
OnlyFirstCharIsOperator(i) ==
    /\ AfterField(i).ok
    /\ Len(OperatorRun(AfterField(i).rest)) = 2
    /\ ~Operator_from_str(OperatorRun(AfterField(i).rest)).ok
    /\ Operator_from_str(Take(AfterField(i).rest, 1)).ok

\* C19 as claimed: the operator of a structured clause is the longest valid operator
\* token: when the first two operator characters are no operator but the first alone is
\* (atk>>5, atk=!5, t::x), the clause has the one-character operator.
C19_LongestValidOperator ==
    \A k \in DOMAIN raw : OnlyFirstCharIsOperator(InputFrom(k)) =>
        /\ branch[k] = "structured"
        /\ raw[k].field = FieldAt(InputFrom(k))
        /\ raw[k].op = Operator_from_str(Take(AfterField(InputFrom(k)).rest, 1)).v

\* C19 amended: the operator token is the first operator characters after the field
\* name, two when there are two or more, and it is parsed as taken: a structured clause
\* has the operator that token denotes, and when the two characters are no operator the
\* token is no structured clause at all, even if its first character alone is an
\* operator (no retry with the shorter token).
C19_OperatorTokenIsGreedy ==
    \A k \in DOMAIN raw :
        /\ branch[k] = "structured" =>
                /\ Operator_from_str(OperatorRun(AfterField(InputFrom(k)).rest)).ok
                /\ raw[k].op = Operator_from_str(OperatorRun(AfterField(InputFrom(k)).rest)).v
        /\ OnlyFirstCharIsOperator(InputFrom(k)) => branch[k] # "structured"

\* atk>>5 is no ATK clause: the name rule takes the whole token
C19_Witness ==
    /\ input = <<"a","t","k",">",">","5">>
    /\ OnlyFirstCharIsOperator(input)
    /\ branch = <<"fallback">>
    /\ raw = <<RawCardFilter("Name", "Equal", VString(<<"a","t","k",">",">","5">>))>>

----------------------------------------------------------------------------
(* The ? sentinel under the ordering operators, checked under FilterSpec *)

\* C20: an ordering comparison of ATK or DEF with a number does not match a monster
\* whose stat is the ? sentinel (-1): atk<n and atk<=n are false on it for every n.
C20_OrderingSkipsSentinel ==
    (/\ pc = "called"
     /\ clause.field \in {"Atk", "Def"}
     /\ clause.op \in {"Less", "LessEqual"}
     /\ clause.value.tag = "Numerical"
     /\ NumberOf(card, clause.field) = Some(-1))
        => verdict = <<FALSE>>

----------------------------------------------------------------------------
(* Letter case, blanks and integer range in the parsed clauses, checked under Spec *)

IsLowercase(t) == t = to_lowercase(t)

\* every String and every regex pattern of a value is lowercase
IsLowercaseValue(v) ==
    CASE v.tag = "String" -> IsLowercase(v.s)
      [] v.tag = "Regex" -> IsLowercase(v.re)
      [] v.tag = "Multiple" -> \A k \in DOMAIN v.vs : v.vs[k].tag = "String" => IsLowercase(v.vs[k].s)
      [] OTHER -> TRUE

\* C21: parsing is case-insensitive: a query and the query in lower case (hence any two
\* queries that differ in letter case only) are both accepted or both rejected and yield
\* the same clause list, and every String value and regex pattern of a parsed clause
\* is lowercase.
C21_ParsingIgnoresCase ==
    /\ Returned => result = parse_filters_of(input)
    /\ Returned => result.kind = parse_filters_of(to_lowercase(input)).kind
    /\ result.kind = "Ok" => result.filters = parse_filters_of(to_lowercase(input)).filters
    /\ \A k \in DOMAIN raw : IsLowercaseValue(raw[k].value)

\* Des L=3 is the Level clause and the name des
C21_Witness ==
    /\ input = <<"D","e","s"," ","L","=","3">>
    /\ input # to_lowercase(input)
    /\ result.kind = "Ok"
    /\ result.filters = <<RawCardFilter("Level", "Equal", VNumerical(3)),
                          RawCardFilter("Name", "Equal", VString(<<"d","e","s">>))>>

\* a value holds a blank in a String or in an alternative of a Multiple
HasBlank(v) ==
    CASE v.tag = "String" -> contains(v.s, <<" ">>)
      [] v.tag = "Multiple" -> \E k \in DOMAIN v.vs : v.vs[k].tag = "String" /\ contains(v.vs[k].s, <<" ">>)
      [] OTHER -> FALSE

\* the k-th clause is structured and its value is written bare: neither between
\* double quotes nor as a /.../ literal
IsBareValue(k) ==
    /\ branch[k] = "structured"
    /\ ~DelimitedValueAt(InputFrom(k), "\"").ok
    /\ ~DelimitedValueAt(InputFrom(k), "/").ok

\* C22: the value of a structured clause that is neither double-quoted nor a /.../
\* regex literal never contains a space character, also when a later token of the input
\* starts with '|'.
C22_BareValueHasNoBlank ==
    \A k \in DOMAIN raw : IsBareValue(k) => ~HasBlank(raw[k].value)

----------------------------------------------------------------------------
(* The projected names, checked under ProjectSpec *)

NoValueTwice(l) == \A i, j \in DOMAIN l : l[i] = l[j] => i = j

\* C23: the projected list of lowercased names (current name, treated-as name, previous
\* name) of every record contains no value twice, also when the current and the previous
\* name are equal and the treated-as name differs from both.
C23_NamesHoldNoValueTwice == Projected => NoValueTwice(card.names)

----------------------------------------------------------------------------
(* Regex clauses, checked under FilterSpec *)

ListFields == {"Name", "Type", "Set"}
SingleStringFields == {"Text", "Attribute"}

\* the list a list-valued field of the projection holds
ListOf(c, f) ==
    CASE f = "Name" -> c.names
      [] f = "Type" -> c.typeline
      [] f = "Set" -> c.sets

\* the string a single-string field of the projection holds
SingleStringOf(c, f) ==
    IF f = "Text" THEN c.text ELSE IF c.attribute.some THEN c.attribute.v ELSE <<>>

\* what a regex clause on a single-string field says of a string
RegexVerdict(op, re, text) ==
    CASE op = "Equal" -> is_match(re, text)
      [] op = "NotEqual" -> ~is_match(re, text)
      [] OTHER -> FALSE

\* C24: a regex clause on a list-valued field (Name, Type, Set) is false on every
\* projection under every operator, Equal and NotEqual included, whether or not an
\* element of the list matches; on Text and Attribute the clause is the regex match
\* (Equal) or its negation (NotEqual); on the numeric fields it is false.
C24_RegexOnlyOnSingleStrings ==
    (pc = "called" /\ clause.value.tag = "Regex") =>
        IF clause.field \in SingleStringFields
        THEN verdict = <<RegexVerdict(clause.op, clause.value.re, SingleStringOf(card, clause.field))>>
        ELSE verdict = <<FALSE>>

\* a name matches the pattern and the clause name:/a/ is false
C24_Witness ==
    /\ pc = "called"
    /\ clause = RawCardFilter("Name", "Equal", VRegex(<<"a">>))
    /\ \E k \in DOMAIN ListOf(card, "Name") : is_match(<<"a">>, ListOf(card, "Name")[k])
    /\ verdict = <<FALSE>>

----------------------------------------------------------------------------
(* Integer literals beyond the i32 range, checked under Spec *)

\* an optional sign followed by digits, one at least
IsDigitString(t) == t # <<>> /\ \A i \in DOMAIN t : is_digit(t[i])
Unsigned(t) == IF t # <<>> /\ t[1] \in {"+", "-"} THEN Tail(t) ELSE t
IsIntegerLiteral(t) == IsDigitString(Unsigned(t))

\* the integer the literal denotes is below -2^31 or above 2^31 - 1
ExceedsI32(t) == ~DecimalValue(Unsigned(t), 0, t[1] = "-").ok

\* the text of the value of the k-th clause, as written
WrittenValue(k) == ValueText(spans[k]).rest

\* the k-th clause is on a numeric field and its value is written as an integer that
\* is not an i32
IsOutOfRangeClause(k) ==
    /\ branch[k] = "structured"
    /\ raw[k].field \in NumericFields
    /\ IsIntegerLiteral(WrittenValue(k))
    /\ ExceedsI32(WrittenValue(k))

\* C25: an integer literal outside the i32 range in a clause on a numeric field is
\* parsed without an error into the String of its text, and the clause is false on
\* every projection whatever the operator; a query made of such a clause alone is
\* accepted and its scan returns no record.
C25_OutOfRangeLiteralMatchesNothing ==
    \A k \in DOMAIN raw : IsOutOfRangeClause(k) =>
        /\ raw[k].value = VString(WrittenValue(k))
        /\ \A c \in ProbeCards : ~SingleClauseHolds(raw[k].field, raw[k].op, raw[k].value, c)
        /\ (Returned /\ spans[k] = input) => result.kind = "Ok"
        /\ pc \in {"scan", "done"} => matches = <<>>

\* atk<99999999999 is scanned and returns nothing, though the corpus holds smaller ATKs
C25_Witness ==
    /\ input = <<"a","t","k","<","9","9","9","9","9","9","9","9","9","9","9">>
    /\ pc = "done"
    /\ result.kind = "Ok"
    /\ raw = <<RawCardFilter("Atk", "Less", VString(<<"9","9","9","9","9","9","9","9","9","9","9">>))>>
    /\ \E i \in DOMAIN Corpus : Corpus[i].atk.some
    /\ matches = <<>>

====
